---- MODULE Spec2Model ----
(***************************************************************************)
(* Model of acmed's hook engine (acmed/src/hooks.rs): the hook contexts    *)
(* and their environment map (set_env / get_env), template rendering of    *)
(* arguments, redirect paths and stdin, the invocation of one hook         *)
(* (call_single) and the dispatch over a certificate's hook list (call).   *)
(*                                                                         *)
(* call_single is modelled step by step (one action per statement that     *)
(* touches the outside world) because child processes run concurrently     *)
(* with it: ChildExit may interleave anywhere after the spawn.             *)
(***************************************************************************)
EXTENDS Naturals, Sequences, FiniteSets, TLC

VARIABLES
    hooks,      \* cert.hooks: the certificate's ordered hook list
    hook_type,  \* the event kind given to call
    data,       \* the context given to call (variant, fields, env)
    penv,       \* the inherited process environment, env::vars()
    overlay,    \* the map given to the latest set_env call on data
    set_envs,   \* the number of set_env calls on data so far
    fs,         \* the file system: path -> content of the existing files
    pc,         \* position of the caller / call / call_single
    cur,        \* index in hooks of the hook being invoked (0: none)
    v,          \* call_single's v: the rendered arguments
    out,        \* the Stdio built for the child's stdout
    err,        \* the Stdio built for the child's stderr
    procs,      \* every child process spawned, in spawn order
    log,        \* what call and call_single did, in order
    ret         \* call's result: "none" while running, "Ok", or the error

vars == <<hooks, hook_type, data, penv, overlay, set_envs, fs, pc, cur, v,
          out, err, procs, log, ret>>

(***************************************************************************)
(* Bounds of the model.                                                    *)
(***************************************************************************)
MaxHooks == 2    \* longest hook list of the dispatch family
MaxArgs == 1     \* most argument templates of one hook
MaxSetEnv == 2   \* most set_env calls on one context

(***************************************************************************)
(* Option<T> is a sequence of length 0 (None) or 1 (Some(x)).              *)
(***************************************************************************)
None == <<>>
Some(x) == <<x>>
IsSome(o) == Len(o) = 1
Unwrap(o) == o[1]

(***************************************************************************)
(* HashMap<String, String>: a function whose domain is the set of keys.    *)
(***************************************************************************)
EmptyMap == [k \in {} |-> ""]

\* HashMap::insert(key, value): a new key is added, an existing one replaced.
Insert(m, key, value) ==
    [k \in DOMAIN m \cup {key} |-> IF k = key THEN value ELSE m[k]]

\* for (key, value) in src { m.insert(key, value) }
RECURSIVE InsertAll(_, _)
InsertAll(m, src) ==
    IF DOMAIN src = {} THEN m
    ELSE LET key == CHOOSE k \in DOMAIN src : TRUE
             rest == [k \in DOMAIN src \ {key} |-> src[k]]
         IN  InsertAll(Insert(m, key, src[key]), rest)

\* Mutant: an inherited variable is inserted only where the map has no
\* entry for its key yet.
SetEnvMapKeepExisting(self_env, inherited, env) ==
    InsertAll(InsertAll(inherited, self_env), env)

\* Mutant: the chain is the other way round, the given map first.
SetEnvMapInheritedLast(self_env, inherited, env) ==
    InsertAll(InsertAll(self_env, env), inherited)

\* set_env: env::vars().chain(env.iter()) is inserted into self.env in that
\* order, the inherited variables first and the given map after them.
SetEnvMap(self_env, inherited, env) ==
    InsertAll(InsertAll(self_env, inherited), env)

\* Command::envs(data.get_env()): the child inherits the process
\* environment, with the context's map on top of it.
ChildEnv(inherited, self_env) == InsertAll(inherited, self_env)

(***************************************************************************)
(* The contexts. Serialize exposes each struct's fields by name.           *)
(***************************************************************************)
ChallengeFields ==
    [domain |-> "example.com", challenge |-> "http-01",
     file_name |-> "tok", proof |-> "abc123", is_clean_hook |-> "false"]

FileStorageFields ==
    [file_name |-> "cert.pem", file_directory |-> "/etc/acmed",
     file_path |-> "/etc/acmed/cert.pem"]

PostOperationFields ==
    [domains |-> "[object]", algorithm |-> "rsa2048", status |-> "Success.",
     is_success |-> "true"]

ChallengeHookData(env) ==
    [variant |-> "Challenge", fields |-> ChallengeFields, env |-> env]

FileStorageHookData(env) ==
    [variant |-> "FileStorage", fields |-> FileStorageFields, env |-> env]

PostOperationHookData(env) ==
    [variant |-> "PostOperation", fields |-> PostOperationFields, env |-> env]

\* The event kinds of crate::config::HookType used here, and the context
\* the caller builds for each.
HookTypes == {"ChallengeHttp01", "FilePostCreate"}

DataFor(t, env) ==
    IF t = "ChallengeHttp01" THEN ChallengeHookData(env)
    ELSE FileStorageHookData(env)

(***************************************************************************)
(* Templates. A template is a sequence of tokens: literal text, a          *)
(* {{name}} placeholder, or a malformed piece (an unclosed "{{").          *)
(* A rendered string is the sequence of its non-empty pieces.              *)
(***************************************************************************)
Lit(s) == [t |-> "lit", s |-> s]
Var(n) == [t |-> "var", s |-> n]
Bad == [t |-> "bad", s |-> "{{"]

RenderOk(s) == [ok |-> TRUE, s |-> s]
RenderErr == [ok |-> FALSE, s |-> <<>>]

\* Handlebars::new() leaves strict mode off: a placeholder naming a field
\* the data does not have renders as the empty string.
\* Only a template that does not parse is an error.
RenderVar(d, name) ==
    IF name \in DOMAIN d.fields THEN <<d.fields[name]>> ELSE <<>>

RECURSIVE render_template(_, _)
render_template(tpl, d) ==
    IF tpl = <<>> THEN RenderOk(<<>>)
    ELSE LET tok == Head(tpl)
             rest == render_template(Tail(tpl), d)
         IN  IF tok.t = "bad" \/ ~rest.ok THEN RenderErr
             ELSE IF tok.t = "lit" THEN RenderOk(<<tok.s>> \o rest.s)
             ELSE RenderOk(RenderVar(d, tok.s) \o rest.s)

\* The loop of call_single over hook.args: the renderings in order, or the
\* first error.
RECURSIVE RenderArgList(_, _)
RenderArgList(lst, d) ==
    IF lst = <<>> THEN [ok |-> TRUE, args |-> <<>>]
    ELSE LET s == render_template(Head(lst), d)
         IN  IF ~s.ok THEN [ok |-> FALSE, args |-> <<>>]
             ELSE LET rest == RenderArgList(Tail(lst), d)
                  IN  IF ~rest.ok THEN [ok |-> FALSE, args |-> <<>>]
                      ELSE [ok |-> TRUE, args |-> <<s.s>> \o rest.args]

\* let args = match &hook.args { Some(lst) => ..., None => &[] }
RenderArgs(h, d) ==
    IF IsSome(h.args) THEN RenderArgList(Unwrap(h.args), d)
    ELSE [ok |-> TRUE, args |-> <<>>]

(***************************************************************************)
(* Hooks, and the hook lists the model is run on.                          *)
(***************************************************************************)
Hook(hook_types, args, stdin, stdout, stderr, allow_failure) ==
    [name |-> "hook", hook_type |-> hook_types, cmd |-> "/bin/hook",
     args |-> args, stdin |-> stdin, stdout |-> stdout, stderr |-> stderr,
     allow_failure |-> allow_failure]

ArgTemplates == {<<Lit("--domain="), Var("domain")>>, <<Bad>>}
StdinTemplates == {<<Var("proof")>>, <<Lit("proof="), Bad>>}
StdoutTemplate == <<Lit("/tmp/out-"), Var("domain")>>
StdoutTemplates == {StdoutTemplate, <<Lit("/tmp/out-"), Bad>>}
StderrTemplate == <<Lit("/tmp/err-"), Var("domain")>>
StderrTemplates == {StderrTemplate, <<Bad>>}

Opt(S) == {None} \cup {Some(x) : x \in S}

SeqsUpTo(S, n) == UNION {[1..k -> S] : k \in 0..n}

ArgOpts == Opt(SeqsUpTo(ArgTemplates, MaxArgs))

\* Hooks that differ in their event kinds and their failure policy. Each
\* redirects its stdout, so that its invocation leaves a file behind.
PlainHooks ==
    {Hook(ht, None, None, Some(StdoutTemplate), None, af) :
        ht \in SUBSET HookTypes, af \in BOOLEAN}

\* Hooks registered for every event kind, with every combination of
\* argument, stdin, stdout and stderr templates.
RichHooks ==
    {Hook(HookTypes, a, i, o, e, af) :
        a \in ArgOpts, i \in Opt(StdinTemplates), o \in Opt(StdoutTemplates),
        e \in Opt(StderrTemplates), af \in BOOLEAN}

Follower == Hook(HookTypes, None, None, Some(StdoutTemplate), None, FALSE)

\* The dispatch family: every list of up to MaxHooks plain hooks.
\* The invocation family: one rich hook, alone or followed by a hook that
\* leaves a file behind when it runs.
DispatchLists == SeqsUpTo(PlainHooks, MaxHooks)
InvokeLists == {<<r>> : r \in RichHooks} \cup {<<r, Follower>> : r \in RichHooks}
HookLists == DispatchLists \cup InvokeLists

\* Every path a redirect template of the model can render to.
Paths ==
    {render_template(t, DataFor(ht, EmptyMap)).s :
        t \in {StdoutTemplate, StderrTemplate}, ht \in HookTypes}

Keys == {"PATH", "ACME"}
Values == {"a", "b"}
Maps == UNION {[D -> Values] : D \in SUBSET Keys}

(***************************************************************************)
(* The state after the caller has built the certificate and the context.   *)
(***************************************************************************)
InitOver(lists, types, penvs, envs, files) ==
    /\ hooks \in lists
    /\ hook_type \in types
    /\ penv \in penvs
    /\ \E e \in envs : data = DataFor(hook_type, e)
    /\ overlay = EmptyMap
    /\ set_envs = 0
    /\ fs \in files
    /\ pc = "idle"
    /\ cur = 0
    /\ v = <<>>
    /\ out = [kind |-> "null", path |-> <<>>]
    /\ err = [kind |-> "null", path |-> <<>>]
    /\ procs = <<>>
    /\ log = <<>>
    /\ ret = "none"

\* Every hook list of the two families, under a fixed environment.
Init ==
    InitOver(HookLists, HookTypes, {[k \in {"PATH"} |-> "a"]},
             {[k \in {"ACME"} |-> "b"]}, {EmptyMap, [p \in Paths |-> "old"]})

\* Every inherited environment and every context map, under one hook.
EnvHook == Hook(HookTypes, None, Some(<<Var("proof")>>), None, None, FALSE)

InitEnv ==
    InitOver({<<EnvHook>>}, {"ChallengeHttp01"}, Maps, Maps, {EmptyMap})

(***************************************************************************)
(* call: the loop over the selected hooks.                                 *)
(***************************************************************************)
\* Mutant: the filter lets every hook through.
SelectedAny(h, t) == TRUE

\* .filter(|h| h.hook_type.contains(&hook_type))
Selected(h, t) == t \in h.hook_type

\* Mutant: the iterator yields the last selected hook, skipping the others.
NextSelectedLast(hs, t, i) ==
    LET S == {j \in (i + 1)..Len(hs) : Selected(hs[j], t)}
    IN  IF S = {} THEN 0 ELSE CHOOSE j \in S : \A k \in S : j >= k

\* The next hook the filtered iterator yields after index i (0: none left).
NextSelected(hs, t, i) ==
    LET S == {j \in (i + 1)..Len(hs) : Selected(hs[j], t)}
    IN  IF S = {} THEN 0 ELSE CHOOSE j \in S : \A k \in S : j <= k

\* Mutant: a failed invocation is tried again.
CallStepRetry(hs, t, i, res) ==
    IF res # "Ok" THEN [pc |-> "args", cur |-> i, ret |-> "none"]
    ELSE LET j == NextSelected(hs, t, i)
         IN  IF j = 0 THEN [pc |-> "done", cur |-> 0, ret |-> "Ok"]
             ELSE [pc |-> "args", cur |-> j, ret |-> "none"]

\* Mutant: the error of a hook with allow_failure = true does not end the loop.
CallStepLenient(hs, t, i, res) ==
    IF res # "Ok" /\ ~hs[i].allow_failure THEN [pc |-> "done", cur |-> 0, ret |-> res]
    ELSE LET j == NextSelected(hs, t, i)
         IN  IF j = 0 THEN [pc |-> "done", cur |-> 0, ret |-> "Ok"]
             ELSE [pc |-> "args", cur |-> j, ret |-> "none"]

\* call_single(data, &hook)?, at loop entry (i = 0, res = "Ok") and after the
\* invocation of hook i returned res: an error returns from call at once,
\* otherwise the loop goes on to the next selected hook, and to Ok(()) after
\* the last one.
CallStep(hs, t, i, res) ==
    IF res # "Ok" THEN [pc |-> "done", cur |-> 0, ret |-> res]
    ELSE LET j == NextSelected(hs, t, i)
         IN  IF j = 0 THEN [pc |-> "done", cur |-> 0, ret |-> "Ok"]
             ELSE [pc |-> "args", cur |-> j, ret |-> "none"]

Ev(op, i, what) == [op |-> op, hook |-> i, what |-> what]

NullStdio == [kind |-> "null", path |-> <<>>]
FileStdio(path) == [kind |-> "file", path |-> path]

\* call_single returns res for the current hook: its locals are dropped and
\* control is back in call. lg is the log up to the return.
Return(res, lg) ==
    LET n == CallStep(hooks, hook_type, cur, res)
    IN  /\ pc' = n.pc
        /\ cur' = n.cur
        /\ ret' = n.ret
        /\ v' = <<>>
        /\ out' = NullStdio
        /\ err' = NullStdio
        /\ log' = Append(lg, Ev("return", cur, <<res>>))

\* Mutant: the pipe to the child is leaked, not closed, on an early return.
DropChildKeepsOpen(p) == p

\* Dropping a Child neither kills nor waits for the process: only the
\* handle on its stdin pipe is closed.
DropChild(p) == [p EXCEPT !.stdin.open = FALSE]

\* call(cert, data, hook_type) is entered.
Call ==
    /\ pc = "idle"
    /\ LET n == CallStep(hooks, hook_type, 0, "Ok")
       IN  /\ pc' = n.pc
           /\ cur' = n.cur
           /\ ret' = n.ret
    /\ log' = Append(log, Ev("call", 0, <<hook_type>>))
    /\ UNCHANGED <<hooks, hook_type, data, penv, overlay, set_envs, fs, v, out, err, procs>>

(***************************************************************************)
(* call_single, statement by statement.                                    *)
(***************************************************************************)
\* Lines 115-125: the arguments are rendered in order; the first template
\* error returns.
DoRenderArgs ==
    /\ pc = "args"
    /\ LET r == RenderArgs(hooks[cur], data)
       IN  IF r.ok
           THEN /\ v' = r.args
                /\ pc' = "stdout"
                /\ log' = Append(log, Ev("args", cur, <<>>))
                /\ UNCHANGED <<cur, ret, out, err>>
           ELSE Return("TemplateError", log)
    /\ UNCHANGED <<hooks, hook_type, data, penv, overlay, set_envs, fs, procs>>

\* Mutant: a file that cannot be created falls back to the null device.
HookOutputFallback(o, d) ==
    IF ~IsSome(o)
    THEN {[res |-> "Ok", stdio |-> NullStdio, path |-> <<>>,
           tried |-> FALSE, created |-> FALSE]}
    ELSE LET path == render_template(Unwrap(o), d)
         IN  IF ~path.ok
             THEN {[res |-> "TemplateError", stdio |-> NullStdio, path |-> <<>>,
                    tried |-> FALSE, created |-> FALSE]}
             ELSE {[res |-> "Ok", stdio |-> FileStdio(path.s), path |-> path.s,
                    tried |-> TRUE, created |-> TRUE],
                   [res |-> "Ok", stdio |-> NullStdio, path |-> path.s,
                    tried |-> TRUE, created |-> FALSE]}

\* Mutant: the path is rendered but the file is left to be created when
\* the process starts.
HookOutputLazy(o, d) ==
    IF ~IsSome(o)
    THEN {[res |-> "Ok", stdio |-> NullStdio, path |-> <<>>,
           tried |-> FALSE, created |-> FALSE]}
    ELSE LET path == render_template(Unwrap(o), d)
         IN  IF ~path.ok
             THEN {[res |-> "TemplateError", stdio |-> NullStdio, path |-> <<>>,
                    tried |-> FALSE, created |-> FALSE]}
             ELSE {[res |-> "Ok", stdio |-> FileStdio(path.s), path |-> path.s,
                    tried |-> FALSE, created |-> FALSE]}

\* get_hook_output!: what the macro yields for one redirect template o, as
\* the set of its possible outcomes. File::create may fail (permissions, a
\* missing directory); when it succeeds the file exists and is empty.
\* tried: File::create was called; created: it succeeded.
HookOutput(o, d) ==
    IF ~IsSome(o)
    THEN {[res |-> "Ok", stdio |-> NullStdio, path |-> <<>>,
           tried |-> FALSE, created |-> FALSE]}
    ELSE LET path == render_template(Unwrap(o), d)
         IN  IF ~path.ok
             THEN {[res |-> "TemplateError", stdio |-> NullStdio, path |-> <<>>,
                    tried |-> FALSE, created |-> FALSE]}
             ELSE {[res |-> "Ok", stdio |-> FileStdio(path.s), path |-> path.s,
                    tried |-> TRUE, created |-> TRUE],
                   [res |-> "IoError", stdio |-> NullStdio, path |-> path.s,
                    tried |-> TRUE, created |-> FALSE]}

\* Mutant: an existing file is opened as it is, not truncated.
CreateNoTruncate(files, path) ==
    IF path \in DOMAIN files THEN files ELSE Insert(files, path, "empty")

\* File::create(path): the file is created, or truncated if it exists.
Create(files, path) == Insert(files, path, "empty")

\* The log after one use of get_hook_output! with outcome o.
OutputLog(lg, i, o) ==
    IF ~o.tried THEN lg
    ELSE Append(lg, Ev(IF o.created THEN "create" ELSE "create_failed", i, o.path))

\* Line 131: .stdout(get_hook_output!(&hook.stdout, reg, &data))
OpenStdout ==
    /\ pc = "stdout"
    /\ \E o \in HookOutput(hooks[cur].stdout, data) :
        /\ fs' = IF o.created THEN Create(fs, o.path) ELSE fs
        /\ IF o.res = "Ok"
           THEN /\ out' = o.stdio
                /\ pc' = "stderr"
                /\ log' = Append(OutputLog(log, cur, o), Ev("stdout", cur, o.path))
                /\ UNCHANGED <<cur, ret, v, err>>
           ELSE Return(o.res, OutputLog(log, cur, o))
    /\ UNCHANGED <<hooks, hook_type, data, penv, overlay, set_envs, procs>>

\* Line 132: .stderr(get_hook_output!(&hook.stderr, reg, &data))
OpenStderr ==
    /\ pc = "stderr"
    /\ \E o \in HookOutput(hooks[cur].stderr, data) :
        /\ fs' = IF o.created THEN Create(fs, o.path) ELSE fs
        /\ IF o.res = "Ok"
           THEN /\ err' = o.stdio
                /\ pc' = "spawn"
                /\ log' = Append(OutputLog(log, cur, o), Ev("stderr", cur, o.path))
                /\ UNCHANGED <<cur, ret, v, out>>
           ELSE Return(o.res, OutputLog(log, cur, o))
    /\ UNCHANGED <<hooks, hook_type, data, penv, overlay, set_envs, procs>>

\* Lines 133-136: the child's stdin is a pipe when the hook has a stdin
\* template, and the null device otherwise.
StdinStdio(h) ==
    IF IsSome(h.stdin) THEN [kind |-> "piped", open |-> TRUE, data |-> <<>>]
    ELSE [kind |-> "null", open |-> FALSE, data |-> <<>>]

\* The process Command::spawn starts for hook i.
Child(i, h, args, env, so, se) ==
    [hook |-> i, cmd |-> h.cmd, args |-> args, env |-> env,
     stdin |-> StdinStdio(h), stdout |-> so, stderr |-> se,
     state |-> "running", status |-> "none", reaped |-> FALSE]

\* Where call_single goes after a successful spawn (line 138).
AfterSpawn(h) == IF IsSome(h.stdin) THEN "stdin" ELSE "wait"

\* Line 137: .spawn()? starts the process or fails (command not found,
\* permission denied).
Spawn ==
    /\ pc = "spawn"
    /\ \/ /\ procs' = Append(procs, Child(cur, hooks[cur], v,
                                          ChildEnv(penv, data.env), out, err))
          /\ pc' = AfterSpawn(hooks[cur])
          /\ log' = Append(log, Ev("spawn", cur, <<>>))
          /\ UNCHANGED <<cur, ret, v, out, err>>
       \/ /\ Return("IoError", Append(log, Ev("spawn_failed", cur, <<>>)))
          /\ UNCHANGED procs
    /\ UNCHANGED <<hooks, hook_type, data, penv, overlay, set_envs, fs>>

\* Mutant: a single write, which may stop short and still return Ok.
WriteAllPartial(bytes) ==
    {[ok |-> TRUE, written |-> SubSeq(bytes, 1, k)] : k \in 0..Len(bytes)}

\* write_all(data_in.as_bytes()): every byte is written and Ok returned, or
\* an error is returned after some of them (the reader closed the pipe).
\* Nothing is written for an empty buffer, which cannot fail.
WriteAll(bytes) ==
    {[ok |-> TRUE, written |-> bytes]} \cup
    {[ok |-> FALSE, written |-> SubSeq(bytes, 1, k)] : k \in 0..(Len(bytes) - 1)}

\* Lines 138-143: the stdin template is rendered after the spawn and written
\* to the pipe. On either error the Child is dropped, not waited for.
WriteStdin ==
    /\ pc = "stdin"
    /\ LET n == Len(procs)
           data_in == render_template(Unwrap(hooks[cur].stdin), data)
       IN  IF ~data_in.ok
           THEN /\ procs' = [procs EXCEPT ![n] = DropChild(@)]
                /\ Return("TemplateError", log)
           ELSE \E w \in WriteAll(data_in.s) :
                LET p == [procs[n] EXCEPT !.stdin.data = w.written]
                    lg == Append(log, Ev(IF w.ok THEN "write" ELSE "write_failed",
                                         cur, w.written))
                IN  IF w.ok
                    THEN /\ procs' = [procs EXCEPT ![n] = p]
                         /\ pc' = "wait"
                         /\ log' = lg
                         /\ UNCHANGED <<cur, ret, v, out, err>>
                    ELSE /\ procs' = [procs EXCEPT ![n] = DropChild(p)]
                         /\ Return("IoError", lg)
    /\ UNCHANGED <<hooks, hook_type, data, penv, overlay, set_envs, fs>>

\* Line 145, first half: Child::wait closes the child's stdin, then blocks.
WaitBegin ==
    /\ pc = "wait"
    /\ procs' = [procs EXCEPT ![Len(procs)].stdin.open = FALSE]
    /\ pc' = "waiting"
    /\ log' = Append(log, Ev("close", cur, <<>>))
    /\ UNCHANGED <<hooks, hook_type, data, penv, overlay, set_envs, fs, cur,
                   ret, v, out, err>>

\* Mutant: a failure status is never reported.
ExitResultLenient(status, allow_failure) == "Ok"

\* Mutant: allow_failure is not consulted.
ExitResultStrict(status, allow_failure) ==
    IF status # "ok" THEN "HookExecutionError" ELSE "Ok"

\* Mutant: only an exit code other than 0 is a failure; a process killed
\* by a signal, which has no exit code, passes.
ExitResultSignalOk(status, allow_failure) ==
    IF status = "code" /\ ~allow_failure THEN "HookExecutionError" ELSE "Ok"

\* Lines 146-157: the outcome of an invocation whose process ended with
\* status ("ok": exit code 0, "code": another exit code, "signal": killed,
\* no exit code).
ExitResult(status, allow_failure) ==
    IF status # "ok" /\ ~allow_failure THEN "HookExecutionError" ELSE "Ok"

\* Mutant: wait does not block.
WaitReturnsAtOnce(p) == TRUE

\* wait blocks until the process has ended.
WaitReturns(p) == p.state = "exited"

\* Line 145, second half, to the end: wait returns once the process has
\* ended, with its status, and the status is classified; or wait itself
\* fails, and the error is returned.
WaitEnd ==
    /\ pc = "waiting"
    /\ LET n == Len(procs)
       IN  \/ /\ WaitReturns(procs[n])
              /\ procs' = [procs EXCEPT ![n].reaped = TRUE]
              /\ Return(ExitResult(procs[n].status, hooks[cur].allow_failure),
                        Append(log, Ev("wait", cur, <<procs[n].status>>)))
           \/ /\ procs' = [procs EXCEPT ![n] = DropChild(@)]
              /\ Return("IoError", Append(log, Ev("wait_failed", cur, <<>>)))
    /\ UNCHANGED <<hooks, hook_type, data, penv, overlay, set_envs, fs>>

\* A running child ends, by itself, with some status.
ChildExit ==
    /\ \E n \in 1..Len(procs), st \in {"ok", "code", "signal"} :
        /\ procs[n].state = "running"
        /\ procs' = [procs EXCEPT ![n].state = "exited", ![n].status = st]
    /\ UNCHANGED <<hooks, hook_type, data, penv, overlay, set_envs, fs, pc,
                   cur, v, out, err, log, ret>>

\* Mutant: set_env also exports the merged map to the process environment.
SetEnvExport(env) ==
    /\ pc = "idle"
    /\ set_envs < MaxSetEnv
    /\ data' = [data EXCEPT !.env = SetEnvMap(data.env, penv, env)]
    /\ penv' = SetEnvMap(data.env, penv, env)
    /\ overlay' = env
    /\ set_envs' = set_envs + 1
    /\ UNCHANGED <<hooks, hook_type, fs, pc, cur, v, out, err, procs, log, ret>>

\* The caller calls data.set_env(env) before it calls call.
SetEnv(env) ==
    /\ pc = "idle"
    /\ set_envs < MaxSetEnv
    /\ data' = [data EXCEPT !.env = SetEnvMap(data.env, penv, env)]
    /\ overlay' = env
    /\ set_envs' = set_envs + 1
    /\ UNCHANGED <<hooks, hook_type, penv, fs, pc, cur, v, out, err, procs,
                   log, ret>>

Next ==
    \/ Call
    \/ DoRenderArgs
    \/ OpenStdout
    \/ OpenStderr
    \/ Spawn
    \/ WriteStdin
    \/ WaitBegin
    \/ WaitEnd
    \/ ChildExit

Spec == Init /\ [][Next]_vars

\* Hook lists that take call through each of its returns: a template that
\* does not render in each of the four places, and a hook with every
\* template followed by a plain one.
FrameHook(a, i, o, e) == Hook(HookTypes, a, i, o, e, FALSE)

FrameLists ==
    {<<FrameHook(Some(<<<<Bad>>>>), None, None, None)>>,
     <<FrameHook(None, None, Some(<<Lit("/tmp/out-"), Bad>>), None)>>,
     <<FrameHook(None, None, Some(StdoutTemplate), Some(<<Bad>>))>>,
     <<FrameHook(None, Some(<<Lit("proof="), Bad>>), None, None)>>,
     <<FrameHook(Some(<<<<Lit("--domain="), Var("domain")>>>>),
                 Some(<<Var("proof")>>), Some(StdoutTemplate),
                 Some(StderrTemplate)),
       Follower>>}

\* The maps given to set_env there: one with a new key, one that redefines
\* an inherited key.
FrameOverlays == {[k \in {"ACME"} |-> "a"], [k \in {"PATH"} |-> "b"]}

InitFrame ==
    InitOver(FrameLists, HookTypes, {[k \in {"PATH"} |-> "a"]},
             {[k \in {"ACME"} |-> "b"]}, {EmptyMap, [p \in Paths |-> "old"]})

FrameNext == (\E env \in FrameOverlays : SetEnv(env)) \/ Next

\* set_env calls followed by a call, over those hook lists.
SpecFrame == InitFrame /\ [][FrameNext]_vars

\* The steps of call once it is entered: it is a sequential function, which
\* runs each of its statements in turn.
CallSteps ==
    \/ DoRenderArgs
    \/ OpenStdout
    \/ OpenStderr
    \/ Spawn
    \/ WriteStdin
    \/ WaitBegin
    \/ WaitEnd

\* A step of call that is not an error of wait itself: what the program
\* does whenever nothing outside of it fails.
Progress == CallSteps /\ (pc = "waiting" => procs'[Len(procs)].reaped)

\* The same behaviours, with call not stopping in the middle (wait returns
\* once the child has ended) and every spawned child ending at some time.
FairSpec == Init /\ [][Next]_vars /\ WF_vars(Progress) /\ WF_vars(ChildExit)

EnvNext == (\E env \in Maps : SetEnv(env)) \/ Next

SpecEnv == InitEnv /\ [][EnvNext]_vars

(***************************************************************************)
(* Reading the history.                                                    *)
(***************************************************************************)
\* The positions of hook i's events named op in the log.
Events(op, i) == {k \in 1..Len(log) : log[k].op = op /\ log[k].hook = i}
Has(op, i) == Events(op, i) # {}

\* call_single was entered for hook i.
Invoked(i) == cur = i \/ \E k \in 1..Len(log) : log[k].hook = i

\* call_single returned res for hook i.
Returned(i, res) == \E k \in Events("return", i) : log[k].what = <<res>>

\* The processes spawned for hook i.
ProcsOf(i) == {n \in 1..Len(procs) : procs[n].hook = i}

\* Nothing was done for hook i: no step of an invocation, no file, no process.
Untouched(i) ==
    /\ ~Invoked(i)
    /\ ProcsOf(i) = {}

\* Call has returned err, and nothing was done for any hook after hook i.
AbortedAt(i, e) ==
    /\ pc = "done"
    /\ ret = e
    /\ \A j \in (i + 1)..Len(hooks) : Untouched(j)

\* The n-th process ended with a failure status and its hook does not allow
\* failure.
FailedFatally(n) ==
    /\ procs[n].state = "exited"
    /\ procs[n].status # "ok"
    /\ ~hooks[procs[n].hook].allow_failure

(***************************************************************************)
(* C1: fail-fast dispatch. Once the process of a selected hook with        *)
(* allow_failure = false has ended with a failure status, nothing is ever  *)
(* done for a later hook (no step, no file, no process), and call, once it *)
(* has returned, has returned an error.                                    *)
(***************************************************************************)
C1_FailFast ==
    \A n \in 1..Len(procs) :
        FailedFatally(n) =>
            /\ \A j \in (procs[n].hook + 1)..Len(hooks) : Untouched(j)
            /\ pc = "done" => ret # "Ok"

\* Call returned after a fatal exit while a later hook, which would have
\* created a file, was selected.
C1_Witness ==
    /\ pc = "done"
    /\ \E n \in 1..Len(procs) :
        /\ FailedFatally(n)
        /\ procs[n].reaped
        /\ \E j \in (procs[n].hook + 1)..Len(hooks) :
            hook_type \in hooks[j].hook_type /\ IsSome(hooks[j].stdout)

\* wait gave a failure status for hook i, which allows failure.
AllowedFailure(i) ==
    /\ hooks[i].allow_failure
    /\ \E k \in Events("wait", i) : log[k].what # <<"ok">>

\* Every invocation that has returned so far returned Ok.
NoInvocationFailed ==
    \A k \in 1..Len(log) : log[k].op = "return" => log[k].what = <<"Ok">>

(***************************************************************************)
(* C2: an allowed failure is absorbed. When wait gives a failure status    *)
(* for a hook with allow_failure = true, the invocation returns Ok, the    *)
(* next selected hook is invoked, and call returns Ok unless some          *)
(* invocation returned an error.                                           *)
(***************************************************************************)
C2_AllowedFailureAbsorbed ==
    \A i \in 1..Len(hooks) :
        AllowedFailure(i) =>
            /\ Returned(i, "Ok")
            /\ \A j \in (i + 1)..Len(hooks) :
                 (/\ hook_type \in hooks[j].hook_type
                  /\ \A m \in (i + 1)..(j - 1) : ~(hook_type \in hooks[m].hook_type))
                 => Invoked(j)
            /\ \A j \in (i + 1)..Len(hooks) :
                 (hook_type \in hooks[j].hook_type /\ pc = "done" /\ ret = "Ok")
                 => Has("spawn", j)
            /\ (pc = "done" /\ NoInvocationFailed) => ret = "Ok"

\* Call returned Ok after an allowed failure, and a later hook has run.
C2_Witness ==
    /\ pc = "done"
    /\ ret = "Ok"
    /\ \E i \in 1..Len(hooks) :
        /\ AllowedFailure(i)
        /\ \E j \in (i + 1)..Len(hooks) : Has("wait", j)

(***************************************************************************)
(* C3: event filtering. A hook whose hook_type list does not contain the   *)
(* dispatched event kind, an empty list included, is never invoked: no     *)
(* step of an invocation is logged for it (no file created or truncated)   *)
(* and no process is spawned for it.                                       *)
(***************************************************************************)
C3_EventFiltering ==
    \A i \in 1..Len(hooks) :
        ~(hook_type \in hooks[i].hook_type) => Untouched(i)

\* Call returned after it ran a hook and skipped one that redirects stdout
\* and is registered for another event kind.
C3_Witness ==
    /\ pc = "done"
    /\ \E i, j \in 1..Len(hooks) :
        /\ Has("spawn", i)
        /\ hooks[j].hook_type # {}
        /\ ~(hook_type \in hooks[j].hook_type)
        /\ IsSome(hooks[j].stdout)

\* The same with a skipped hook that is registered for no event kind.
C3_WitnessEmpty ==
    /\ pc = "done"
    /\ \E i, j \in 1..Len(hooks) :
        /\ Has("spawn", i)
        /\ hooks[j].hook_type = {}
        /\ IsSome(hooks[j].stdout)

\* env has the latest overlay on top of the inherited environment.
OverlayOnTop(env) ==
    /\ \A k \in DOMAIN overlay : k \in DOMAIN env /\ env[k] = overlay[k]
    /\ \A k \in DOMAIN penv \ DOMAIN overlay : k \in DOMAIN env /\ env[k] = penv[k]

(***************************************************************************)
(* C4: environment overlay precedence. After set_env(overlay), the         *)
(* context's map, and with it the environment of every process spawned     *)
(* for it, has every key of the overlay with the overlay's value, also     *)
(* where the inherited environment gives the key another value; a key      *)
(* that only the inherited environment has keeps its inherited value.      *)
(* (A map has each key once: the environment is a function of its keys.)   *)
(***************************************************************************)
C4_OverlayPrecedence ==
    set_envs >= 1 =>
        /\ OverlayOnTop(data.env)
        /\ \A n \in 1..Len(procs) : OverlayOnTop(procs[n].env)

\* A process runs after a set_env whose overlay redefines one inherited
\* key and leaves another inherited key alone.
C4_Witness ==
    /\ set_envs >= 1
    /\ procs # <<>>
    /\ \E k \in DOMAIN overlay \cap DOMAIN penv : overlay[k] # penv[k]
    /\ DOMAIN penv \ DOMAIN overlay # {}

\* Template tpl has a placeholder that names no field of context d.
RefsUnknownField(tpl, d) ==
    \E k \in 1..Len(tpl) : tpl[k].t = "var" /\ ~(tpl[k].s \in DOMAIN d.fields)

OptRefsUnknownField(o, d) == IsSome(o) /\ RefsUnknownField(Unwrap(o), d)

(***************************************************************************)
(* C5: a template that references a field the context does not have        *)
(* always fails to render: its rendering is never used as an argument of   *)
(* a spawned process, as the path of a redirect file, or as stdin.         *)
(***************************************************************************)
C5_UnknownFieldFails ==
    \A i \in 1..Len(hooks) :
        /\ (/\ IsSome(hooks[i].args)
            /\ \E a \in 1..Len(Unwrap(hooks[i].args)) :
                 RefsUnknownField(Unwrap(hooks[i].args)[a], data))
           => ~Has("spawn", i)
        /\ OptRefsUnknownField(hooks[i].stdout, data) => ~Has("stdout", i)
        /\ OptRefsUnknownField(hooks[i].stderr, data) => ~Has("stderr", i)
        /\ OptRefsUnknownField(hooks[i].stdin, data) => ~Has("write", i)

\* The optional template o is present and does not render.
OptRenderFails(o, d) == IsSome(o) /\ ~render_template(Unwrap(o), d).ok

\* The invocation of hook i is past the statement at position p.
Past(i, p) == ~(cur = i /\ pc = p)

ArgsRenderFailed(i) ==
    Invoked(i) /\ Past(i, "args") /\ ~RenderArgs(hooks[i], data).ok
StdoutRenderFailed(i) ==
    Has("args", i) /\ Past(i, "stdout") /\ OptRenderFails(hooks[i].stdout, data)
StderrRenderFailed(i) ==
    Has("stdout", i) /\ Past(i, "stderr") /\ OptRenderFails(hooks[i].stderr, data)
StdinRenderFailed(i) ==
    Has("spawn", i) /\ Past(i, "stdin") /\ OptRenderFails(hooks[i].stdin, data)

RenderFailed(i) ==
    \/ ArgsRenderFailed(i)
    \/ StdoutRenderFailed(i)
    \/ StderrRenderFailed(i)
    \/ StdinRenderFailed(i)

(***************************************************************************)
(* C6: template errors are never allowed failures. Once an invocation has  *)
(* tried a rendering that fails (of an argument, of the stdout or stderr   *)
(* path, of stdin), it has returned a template error, call has returned    *)
(* that error and nothing is done for any later hook, whatever             *)
(* allow_failure is; and the failed rendering is never used.               *)
(***************************************************************************)
C6_TemplateErrorsFatal ==
    \A i \in 1..Len(hooks) :
        /\ RenderFailed(i) =>
            /\ Returned(i, "TemplateError")
            /\ AbortedAt(i, "TemplateError")
        /\ ~RenderArgs(hooks[i], data).ok => ~Has("args", i)
        /\ OptRenderFails(hooks[i].stdout, data) => ~Has("stdout", i)
        /\ OptRenderFails(hooks[i].stderr, data) => ~Has("stderr", i)
        /\ OptRenderFails(hooks[i].stdin, data) => ~Has("write", i)

\* A hook with allow_failure = true failed to render while a later hook
\* was selected.
C6_Witness ==
    \E i \in 1..Len(hooks) :
        /\ hooks[i].allow_failure
        /\ RenderFailed(i)
        /\ \E j \in (i + 1)..Len(hooks) : hook_type \in hooks[j].hook_type

\* The same, for each of the four renderings.
C6_WitnessArgs ==
    \E i \in 1..Len(hooks) : hooks[i].allow_failure /\ ArgsRenderFailed(i)
C6_WitnessStdout ==
    \E i \in 1..Len(hooks) : hooks[i].allow_failure /\ StdoutRenderFailed(i)
C6_WitnessStderr ==
    \E i \in 1..Len(hooks) : hooks[i].allow_failure /\ StderrRenderFailed(i)
C6_WitnessStdin ==
    \E i \in 1..Len(hooks) : hooks[i].allow_failure /\ StdinRenderFailed(i)

\* An I/O operation of the invocation of hook i has failed.
IoFailed(i) ==
    \/ Has("create_failed", i)
    \/ Has("spawn_failed", i)
    \/ Has("write_failed", i)
    \/ Has("wait_failed", i)

(***************************************************************************)
(* C7: I/O errors are fatal. Once File::create, spawn, write_all (or wait) *)
(* has failed in the invocation of a hook, the invocation has returned an  *)
(* I/O error, call has returned that error and nothing is done for any     *)
(* later hook, also when allow_failure = true.                             *)
(***************************************************************************)
C7_IoErrorsFatal ==
    \A i \in 1..Len(hooks) :
        IoFailed(i) =>
            /\ Returned(i, "IoError")
            /\ AbortedAt(i, "IoError")

\* File::create failed for a hook with allow_failure = true while a later
\* hook was selected.
C7_Witness ==
    \E i \in 1..Len(hooks) :
        /\ hooks[i].allow_failure
        /\ Has("create_failed", i)
        /\ \E j \in (i + 1)..Len(hooks) : hook_type \in hooks[j].hook_type

\* The same for a failed spawn and a failed write to stdin.
C7_WitnessSpawn ==
    \E i \in 1..Len(hooks) : hooks[i].allow_failure /\ Has("spawn_failed", i)
C7_WitnessWrite ==
    \E i \in 1..Len(hooks) : hooks[i].allow_failure /\ Has("write_failed", i)

(***************************************************************************)
(* C8: one child at a time, every invocation blocking until its process    *)
(* has ended.                                                              *)
(***************************************************************************)
Running == {n \in 1..Len(procs) : procs[n].state = "running"}

\* C8 as claimed: whenever an invocation has returned, with success or with
\* an error, the process it spawned has ended; no two children are alive at
\* once; none is running when call has returned.
C8_AsClaimed ==
    /\ \A n \in 1..Len(procs) :
         Has("return", procs[n].hook) => procs[n].state = "exited"
    /\ Cardinality(Running) <= 1
    /\ pc = "done" => Running = {}

\* C8 as amended: whenever an invocation has returned Ok or the error of a
\* failure status, the process it spawned has ended and has been waited
\* for; no two children are alive at once; a child that is still running
\* after its invocation returned is the last one spawned, and its invocation
\* and call returned a template or I/O error raised after the spawn (stdin
\* rendering, the write to stdin, wait).
C8_Blocking ==
    /\ \A n \in 1..Len(procs) :
         (Returned(procs[n].hook, "Ok") \/ Returned(procs[n].hook, "HookExecutionError"))
         => procs[n].state = "exited" /\ procs[n].reaped
    /\ Cardinality(Running) <= 1
    /\ \A n \in Running :
         Has("return", procs[n].hook) =>
            /\ n = Len(procs)
            /\ pc = "done"
            /\ ret \in {"TemplateError", "IoError"}
            /\ Returned(procs[n].hook, ret)

\* The second child of a dispatch is running after the first one has ended
\* and its invocation has returned.
C8_Witness ==
    /\ Len(procs) = 2
    /\ Returned(procs[1].hook, "Ok")
    /\ procs[1].state = "exited"
    /\ procs[2].state = "running"

(***************************************************************************)
(* C9: one process per invocation, no retries.                             *)
(***************************************************************************)
Count(op, i) == Cardinality(Events(op, i))

\* C9 as claimed: on every path through an invocation the number of spawns
\* is 1 and the number of completed waits is 1.
C9_AsClaimed ==
    \A i \in 1..Len(hooks) :
        Has("return", i) => Count("spawn", i) = 1 /\ Count("wait", i) = 1

\* C9 as amended: an invocation is entered at most once per hook, spawns at
\* most one process and completes at most one wait, on the process it
\* spawned; it spawns exactly one and waits for it exactly once on every
\* path that returns Ok or the error of a failure status. An invocation
\* that returns a template or I/O error has spawned none or has not waited.
C9_OneProcessNoRetry ==
    \A i \in 1..Len(hooks) :
        /\ Count("return", i) <= 1
        /\ Count("args", i) <= 1
        /\ Count("spawn", i) <= 1
        /\ Cardinality(ProcsOf(i)) = Count("spawn", i)
        /\ Count("wait", i) <= Count("spawn", i)
        /\ (Returned(i, "Ok") \/ Returned(i, "HookExecutionError"))
           => Count("spawn", i) = 1 /\ Count("wait", i) = 1
        /\ (Returned(i, "TemplateError") \/ Returned(i, "IoError"))
           => Count("wait", i) = 0

\* Call returned after one invocation that spawned and waited once and one
\* that returned before it spawned anything.
C9_Witness ==
    /\ pc = "done"
    /\ \E i, j \in 1..Len(hooks) :
        /\ Returned(i, "Ok")
        /\ Count("spawn", i) = 1
        /\ Count("wait", i) = 1
        /\ Has("return", j)
        /\ Count("spawn", j) = 0

\* No hook of the list is registered for the dispatched event kind.
NoneSelected == \A i \in 1..Len(hooks) : ~(hook_type \in hooks[i].hook_type)

(***************************************************************************)
(* C10: dispatch success. When call has returned and every invocation      *)
(* returned Ok, call returned Ok; when call returned Ok, every selected     *)
(* hook was invoked exactly once (one invocation, one process, one wait)    *)
(* and no other hook was; when no hook matches the event kind, call         *)
(* returns Ok, no process is spawned and no file is created or truncated.   *)
(***************************************************************************)
C10_DispatchSuccess ==
    /\ (pc = "done" /\ NoInvocationFailed) => ret = "Ok"
    /\ (pc = "done" /\ ret = "Ok") =>
         \A i \in 1..Len(hooks) :
            IF hook_type \in hooks[i].hook_type
            THEN /\ Count("return", i) = 1
                 /\ Returned(i, "Ok")
                 /\ Count("spawn", i) = 1
                 /\ Count("wait", i) = 1
            ELSE Untouched(i)
    /\ NoneSelected =>
         /\ pc = "done" => ret = "Ok"
         /\ procs = <<>>
         /\ \A path \in DOMAIN fs : fs[path] = "old"
         /\ \A k \in 1..Len(log) : log[k].op = "call"

\* Call returned Ok after two hooks ran.
C10_Witness ==
    /\ pc = "done"
    /\ ret = "Ok"
    /\ Len(procs) = 2

\* Call returned Ok with hooks that redirect stdout to existing files, none
\* of them selected.
C10_WitnessNone ==
    /\ pc = "done"
    /\ ret = "Ok"
    /\ hooks # <<>>
    /\ NoneSelected
    /\ DOMAIN fs # {}
    /\ \E i \in 1..Len(hooks) : IsSome(hooks[i].stdout)

\* The position of the first event of hook i named op (0: none).
First(op, i) ==
    IF Events(op, i) = {} THEN 0
    ELSE CHOOSE k \in Events(op, i) : \A m \in Events(op, i) : k <= m

\* The position of the first event of hook i, whatever it is (0: none).
FirstOf(i) ==
    LET S == {k \in 1..Len(log) : log[k].hook = i}
    IN  IF S = {} THEN 0 ELSE CHOOSE k \in S : \A m \in S : k <= m

(***************************************************************************)
(* C11: configured order, one context. For two selected hooks i before j,  *)
(* nothing is done for j (no step, no file, no process) before the         *)
(* invocation of i has returned Ok; no hook is invoked or returns more     *)
(* than once; the events of the log follow the order of the list; every    *)
(* process is spawned with the arguments and the environment of the one    *)
(* context given to call.                                                  *)
(***************************************************************************)
C11_ConfiguredOrder ==
    /\ \A i, j \in 1..Len(hooks) :
         (i < j /\ hook_type \in hooks[i].hook_type /\ Invoked(j)) =>
            /\ Returned(i, "Ok")
            /\ FirstOf(j) = 0 \/ First("return", i) < FirstOf(j)
    /\ \A k \in 1..(Len(log) - 1) : log[k].hook <= log[k + 1].hook
    /\ \A i \in 1..Len(hooks) :
         /\ Cardinality(Events("args", i)) <= 1
         /\ Cardinality(Events("return", i)) <= 1
         /\ Cardinality(ProcsOf(i)) <= 1
    /\ \A n, m \in 1..Len(procs) : n < m => procs[n].hook < procs[m].hook
    /\ \A n \in 1..Len(procs) :
         /\ procs[n].env = ChildEnv(penv, data.env)
         /\ procs[n].args = RenderArgs(hooks[procs[n].hook], data).args

\* The process of a second selected hook was spawned after the invocation
\* of the first, which spawned one too, returned Ok.
C11_Witness ==
    \E i, j \in 1..Len(hooks) :
        /\ i < j
        /\ Returned(i, "Ok")
        /\ Has("spawn", i)
        /\ Has("spawn", j)
        /\ cur = j

(***************************************************************************)
(* C12: a rendering failure aborts before any process is spawned. Once     *)
(* the rendering of an argument, of the stdout path or of the stderr path  *)
(* has failed, or File::create has failed, the invocation has returned an  *)
(* error and no process was spawned by it.                                 *)
(***************************************************************************)
C12_AbortBeforeSpawn ==
    \A i \in 1..Len(hooks) :
        (\/ ArgsRenderFailed(i)
         \/ StdoutRenderFailed(i)
         \/ StderrRenderFailed(i)
         \/ Has("create_failed", i))
        => /\ \E k \in Events("return", i) : log[k].what # <<"Ok">>
           /\ ~Has("spawn", i)
           /\ ProcsOf(i) = {}

\* The stderr path failed to render after the stdout file was created.
C12_Witness ==
    \E i \in 1..Len(hooks) : StderrRenderFailed(i) /\ Has("create", i)

\* File::create failed for the stderr file.
C12_WitnessCreate ==
    \E i \in 1..Len(hooks) : Has("create_failed", i) /\ Has("stdout", i)

\* The process spawned for hook i (there is at most one).
ProcOf(i) == procs[CHOOSE n \in ProcsOf(i) : TRUE]

(***************************************************************************)
(* C13: the stdin template is rendered after the spawn. The invocation is  *)
(* at the rendering of stdin only with its process already spawned, and    *)
(* every write to a child follows its spawn. Once that rendering has       *)
(* failed, the invocation has returned a template error with no wait and   *)
(* no write; the process exists and was neither waited for nor reaped, its *)
(* stdin is closed and it was given no byte.                               *)
(***************************************************************************)
C13_RenderAfterSpawn ==
    /\ pc = "stdin" =>
         /\ Has("spawn", cur)
         /\ ProcsOf(cur) = {Len(procs)}
    /\ \A i \in 1..Len(hooks) :
         \A k \in Events("write", i) \cup Events("write_failed", i) :
             First("spawn", i) # 0 /\ First("spawn", i) < k
    /\ \A i \in 1..Len(hooks) :
         StdinRenderFailed(i) =>
            /\ Returned(i, "TemplateError")
            /\ ~Has("write", i) /\ ~Has("write_failed", i)
            /\ ~Has("close", i)
            /\ ~Has("wait", i) /\ ~Has("wait_failed", i)
            /\ ProcsOf(i) # {}
            /\ ~ProcOf(i).reaped
            /\ ProcOf(i).stdin = [kind |-> "piped", open |-> FALSE, data |-> <<>>]

\* The rendering of stdin failed, call has returned, and the child, given
\* nothing, is still running.
C13_Witness ==
    \E i \in 1..Len(hooks) :
        /\ StdinRenderFailed(i)
        /\ pc = "done"
        /\ ProcOf(i).state = "running"

\* The same child has since ended by itself.
C13_WitnessExited ==
    \E i \in 1..Len(hooks) :
        /\ StdinRenderFailed(i)
        /\ pc = "done"
        /\ ProcOf(i).state = "exited"
        /\ ~ProcOf(i).reaped

(***************************************************************************)
(* C14: the order of the delivery of stdin. For a hook with a stdin        *)
(* template, once the invoker has started to wait, the child was given     *)
(* exactly the rendered bytes, in one write that follows the spawn and     *)
(* precedes the closing of the pipe, and the pipe is closed; the wait      *)
(* returns after the closing. For a hook without a stdin template, the     *)
(* stdin of the child is the null device and nothing is ever written.      *)
(***************************************************************************)
C14_StdinDelivery ==
    \A i \in 1..Len(hooks) :
        /\ (IsSome(hooks[i].stdin) /\ Has("close", i)) =>
            /\ Cardinality(Events("write", i)) = 1
            /\ First("spawn", i) < First("write", i)
            /\ First("write", i) < First("close", i)
            /\ log[First("write", i)].what
                 = render_template(Unwrap(hooks[i].stdin), data).s
            /\ ProcOf(i).stdin
                 = [kind |-> "piped", open |-> FALSE,
                    data |-> render_template(Unwrap(hooks[i].stdin), data).s]
        /\ \A k \in Events("wait", i) \cup Events("wait_failed", i) :
             First("close", i) # 0 /\ First("close", i) < k
        /\ (IsSome(hooks[i].stdin) /\ ProcsOf(i) # {} /\ ProcOf(i).stdin.open) =>
             Past(i, "waiting") /\ ~Has("wait", i)
        /\ (~IsSome(hooks[i].stdin) /\ ProcsOf(i) # {}) =>
            /\ ProcOf(i).stdin = [kind |-> "null", open |-> FALSE, data |-> <<>>]
            /\ ~Has("write", i) /\ ~Has("write_failed", i)

\* The rendered proof was written and the pipe closed; the invoker is
\* blocked on a child that is still running.
C14_Witness ==
    \E i \in 1..Len(hooks) :
        /\ pc = "waiting" /\ cur = i
        /\ ProcOf(i).state = "running"
        /\ ProcOf(i).stdin.data = <<"abc123">>
        /\ ~ProcOf(i).stdin.open

\* A hook without a stdin template was spawned and waited for.
C14_WitnessNull ==
    \E i \in 1..Len(hooks) :
        /\ ~IsSome(hooks[i].stdin)
        /\ Has("wait", i)
        /\ ProcOf(i).stdin.kind = "null"

(***************************************************************************)
(* C15: the classification of the exit status is total. Every wait that    *)
(* returned a status is followed at once by the return of the invocation,  *)
(* which is HookExecutionError exactly when the status is not success and  *)
(* allow_failure is false, and Ok otherwise; a termination by signal is a  *)
(* failure status: HookExecutionError without allow_failure, Ok with it.   *)
(***************************************************************************)
C15_OutcomeClassification ==
    \A i \in 1..Len(hooks) :
        \A k \in Events("wait", i) :
            LET status == log[k].what[1]
                failed == status # "ok" /\ ~hooks[i].allow_failure
            IN  /\ status \in {"ok", "code", "signal"}
                /\ k < Len(log)
                /\ log[k + 1].op = "return" /\ log[k + 1].hook = i
                /\ log[k + 1].what[1] \in {"Ok", "HookExecutionError"}
                /\ log[k + 1].what[1] = "HookExecutionError" <=> failed
                /\ status = "signal" =>
                     log[k + 1].what[1] =
                        IF hooks[i].allow_failure THEN "Ok"
                        ELSE "HookExecutionError"

\* A child killed by a signal made its invocation fail.
C15_Witness ==
    \E i \in 1..Len(hooks) :
        /\ \E k \in Events("wait", i) : log[k].what = <<"signal">>
        /\ ~hooks[i].allow_failure
        /\ Returned(i, "HookExecutionError")

\* A child killed by a signal was absorbed by allow_failure.
C15_WitnessAbsorbed ==
    \E i \in 1..Len(hooks) :
        /\ \E k \in Events("wait", i) : log[k].what = <<"signal">>
        /\ hooks[i].allow_failure
        /\ Returned(i, "Ok")

\* The stdio a process must have for the redirect template o of its hook.
Binding(o) ==
    IF IsSome(o) THEN FileStdio(render_template(Unwrap(o), data).s)
    ELSE NullStdio

\* The number of redirect templates of hook h.
Redirects(h) ==
    (IF IsSome(h.stdout) THEN 1 ELSE 0) + (IF IsSome(h.stderr) THEN 1 ELSE 0)

(***************************************************************************)
(* C16: the binding of the redirections. For every spawned process, and    *)
(* for stdout and stderr each on its own: with a path template, the stream *)
(* of the child is the file at the rendered path, which was created before *)
(* the spawn and is empty, whatever it held before; without a template the *)
(* stream is the null device, and the invocation created exactly as many   *)
(* files as it has templates.                                              *)
(***************************************************************************)
C16_RedirectionBinding ==
    \A n \in 1..Len(procs) :
        LET i == procs[n].hook
            h == hooks[i]
        IN  /\ procs[n].stdout = Binding(h.stdout)
            /\ procs[n].stderr = Binding(h.stderr)
            /\ \A o \in {h.stdout, h.stderr} :
                 IsSome(o) =>
                    /\ \E k \in Events("create", i) :
                         /\ log[k].what = Binding(o).path
                         /\ k < First("spawn", i)
                    /\ Binding(o).path \in DOMAIN fs
                    /\ fs[Binding(o).path] = "empty"
            /\ Cardinality(Events("create", i)) = Redirects(h)
            /\ ~Has("create_failed", i)

\* A process runs with stdout in a file that existed before and stderr on
\* the null device; the file that would be the stderr one is untouched.
C16_Witness ==
    \E n \in 1..Len(procs) :
        /\ procs[n].stdout.kind = "file"
        /\ procs[n].stderr.kind = "null"
        /\ \E p \in DOMAIN fs : fs[p] = "old"

\* A process runs with both streams in files.
C16_WitnessBoth ==
    \E n \in 1..Len(procs) :
        /\ procs[n].stdout.kind = "file"
        /\ procs[n].stderr.kind = "file"
        /\ procs[n].stdout.path # procs[n].stderr.path

\* C17 as claimed: while a spawned child has not ended, no later hook is
\* invoked and call has not returned.
C17_AsClaimed ==
    \A n \in 1..Len(procs) :
        procs[n].state = "running" =>
            /\ \A j \in 1..Len(hooks) : j > procs[n].hook => ~Invoked(j)
            /\ pc # "done"

(***************************************************************************)
(* C17: blocking and termination, as amended. While a spawned child has    *)
(* not ended, no later hook is invoked, and call has returned only with    *)
(* the template or I/O error that the invocation of that child raised      *)
(* after the spawn (stdin rendering, the write to stdin, wait). With every *)
(* spawned child ending at some time, every call that was entered returns. *)
(***************************************************************************)
C17_BlockingTermination ==
    /\ [](\A n \in 1..Len(procs) :
            procs[n].state = "running" =>
               /\ \A j \in 1..Len(hooks) : j > procs[n].hook => ~Invoked(j)
               /\ pc = "done" =>
                    /\ ret \in {"TemplateError", "IoError"}
                    /\ Returned(procs[n].hook, ret)
                    /\ ~Has("wait", procs[n].hook))
    /\ (pc # "idle") ~> (pc = "done")

\* call is blocked on a running child while a selected hook is still to be
\* invoked.
C17_Witness ==
    /\ pc = "waiting"
    /\ procs[Len(procs)].state = "running"
    /\ \E j \in 1..Len(hooks) :
         j > cur /\ hook_type \in hooks[j].hook_type /\ ~Invoked(j)

\* call returned Ok after two children that it waited for.
C17_WitnessReturned ==
    /\ pc = "done" /\ ret = "Ok"
    /\ Len(procs) = 2
    /\ \A n \in 1..Len(procs) : procs[n].reaped

(***************************************************************************)
(* C18: repeated set_env. Every call of set_env, the first one or a later  *)
(* one, leaves the context's map with: every inherited key, at the value   *)
(* of this call's overlay if the overlay has the key and at the inherited  *)
(* value otherwise, whatever the map held for it before; every key of the  *)
(* overlay at the overlay's value; every other key that the map had        *)
(* before, unchanged; and no other key.                                    *)
(***************************************************************************)
C18_RepeatedSetEnv ==
    [][set_envs' # set_envs =>
        /\ DOMAIN data'.env = DOMAIN data.env \cup DOMAIN penv \cup DOMAIN overlay'
        /\ \A k \in DOMAIN penv :
             data'.env[k] = IF k \in DOMAIN overlay' THEN overlay'[k] ELSE penv[k]
        /\ \A k \in DOMAIN overlay' : data'.env[k] = overlay'[k]
        /\ \A k \in DOMAIN data.env \ (DOMAIN penv \cup DOMAIN overlay') :
             data'.env[k] = data.env[k]
    ]_vars

\* After two calls the map has an inherited key that the latest overlay
\* leaves alone, at its inherited value, and a key that neither the latest
\* overlay nor the inherited environment has.
C18_Witness ==
    /\ set_envs = 2
    /\ \E k \in DOMAIN penv \ DOMAIN overlay : data.env[k] = penv[k]
    /\ \E k \in DOMAIN data.env : k \notin DOMAIN penv \cup DOMAIN overlay

\* The file of redirect template o was created by the invocation of hook i
\* and is there, empty.
CreatedFor(i, o) ==
    /\ \E k \in Events("create", i) : log[k].what = Binding(o).path
    /\ Binding(o).path \in DOMAIN fs
    /\ fs[Binding(o).path] = "empty"

\* The invocation of hook i failed at the rendering of the stderr path, at
\* the creation of the stderr file, or at the spawn.
FailedAfterStdout(i) ==
    \/ StderrRenderFailed(i)
    \/ Has("stdout", i) /\ Has("create_failed", i)
    \/ Has("spawn_failed", i)

(***************************************************************************)
(* C19: no rollback of the redirect files. The stdout file is created      *)
(* before anything is done for stderr and before the spawn. When an        *)
(* invocation has failed at the rendering of the stderr path, at the       *)
(* creation of the stderr file or at the spawn, it has returned an error   *)
(* and has no process, and the stdout file it created is there, truncated; *)
(* so is the stderr file when the spawn failed. Every file that any        *)
(* invocation created stays created and empty, whatever happens after.     *)
(***************************************************************************)
C19_NoRollback ==
    \A i \in 1..Len(hooks) :
        /\ \A k \in Events("create", i) :
             log[k].what \in DOMAIN fs /\ fs[log[k].what] = "empty"
        /\ (IsSome(hooks[i].stdout) /\ Has("stdout", i)) =>
            LET created == First("create", i)
                bound == First("stdout", i)
            IN  /\ created # 0
                /\ log[created].what = Binding(hooks[i].stdout).path
                /\ created < bound
                /\ \A k \in 1..Len(log) :
                     (/\ log[k].hook = i
                      /\ k # created
                      /\ log[k].op \in {"create", "create_failed", "stderr",
                                        "spawn", "spawn_failed"})
                     => bound < k
        /\ FailedAfterStdout(i) =>
            /\ \E k \in Events("return", i) : log[k].what # <<"Ok">>
            /\ ProcsOf(i) = {}
            /\ IsSome(hooks[i].stdout) => CreatedFor(i, hooks[i].stdout)
        /\ (Has("spawn_failed", i) /\ IsSome(hooks[i].stderr)) =>
             CreatedFor(i, hooks[i].stderr)

\* The stderr path did not render; call has returned, no process ran, and
\* the stdout file, which held something before, is empty.
C19_Witness ==
    \E i \in 1..Len(hooks) :
        /\ StderrRenderFailed(i)
        /\ pc = "done"
        /\ procs = <<>>
        /\ CreatedFor(i, hooks[i].stdout)
        /\ \E p \in DOMAIN fs : fs[p] = "old"

\* The spawn failed after both files were created.
C19_WitnessSpawn ==
    \E i \in 1..Len(hooks) :
        /\ Has("spawn_failed", i)
        /\ pc = "done"
        /\ IsSome(hooks[i].stdout) /\ IsSome(hooks[i].stderr)
        /\ CreatedFor(i, hooks[i].stdout)
        /\ CreatedFor(i, hooks[i].stderr)

\* The creation of the stderr file failed after the stdout file was created.
C19_WitnessCreate ==
    \E i \in 1..Len(hooks) :
        /\ Has("create_failed", i) /\ Has("stdout", i)
        /\ pc = "done"
        /\ CreatedFor(i, hooks[i].stdout)

(***************************************************************************)
(* C20: frame. No step changes the hook list, the event kind, the          *)
(* inherited process environment or the fields of the context; no step of  *)
(* call or of an invocation inside it, returning Ok or any error, changes  *)
(* the env map of the context; a set_env step changes the env map of the   *)
(* context and nothing else of the program (no file, no process).          *)
(***************************************************************************)
C20_Frame ==
    [][/\ hooks' = hooks
       /\ hook_type' = hook_type
       /\ penv' = penv
       /\ data'.variant = data.variant
       /\ data'.fields = data.fields
       /\ set_envs' = set_envs => data'.env = data.env
       /\ set_envs' # set_envs =>
            /\ fs' = fs
            /\ procs' = procs
            /\ log' = log
            /\ <<pc, cur, ret>>' = <<pc, cur, ret>>
    ]_vars

\* call returned an error raised after the spawn, after a set_env that
\* redefined an inherited key; the process environment still has its value.
C20_Witness ==
    /\ set_envs >= 1
    /\ pc = "done"
    /\ ret \in {"TemplateError", "IoError"}
    /\ procs # <<>>
    /\ \E k \in DOMAIN penv \cap DOMAIN data.env : data.env[k] # penv[k]

\* call returned Ok after a set_env.
C20_WitnessOk ==
    /\ set_envs >= 1
    /\ pc = "done"
    /\ ret = "Ok"
    /\ Len(procs) = 2

====
